---- MODULE Spec2Model ----
(***************************************************************************)
(* A model of logicpro-timing: the conversion of musical positions to      *)
(* elapsed time (cue_reader.py), the break classifier and the grouping of  *)
(* lyric tokens (parsing/helpers.py, elm_output/elm_output.py) and the     *)
(* command line driver (cue_reader.main).                                  *)
(***************************************************************************)
EXTENDS Integers, Sequences, FiniteSets, TLC

VARIABLES
    \* Position.to_timedelta applied to one input (specification SpecTD);
    \* td_result is <<>> until the call has returned, then <<microseconds>>
    td_pos, td_tempo, td_sig, td_result,
    \* EventStream (specifications Spec and SpecDegenerate)
    tempos, signatures, events, stream, idx, pc,
    curr_time, curr_position, curr_tempo, curr_signature, output, history,
    \* print_lyrics_tree (specification SpecTree): the tokens, the two
    \* groupwhile generators, the consumer's place (tpc) and what it has built;
    \* yielded_pages and yielded_lines record each group as it was yielded
    event_list, pages_gen, lines_gen, tpc, page_lines, book,
    yielded_pages, yielded_lines,
    \* the two text_with_break_type functions applied to one text
    \* (specification SpecClassify); a result is <<>> until the call returned
    cls_text, elm_result, helpers_result,
    \* main (specification SpecMain): the command line, the cue file as the
    \* groups parsed_sections yields, the names main has bound, its place
    \* (mpc), the exception that ended it and the two output files
    args_json, args_elm, cue_file, section_i, bound, output_list, mpc,
    raised, json_file, elm_file

varsTD == <<td_pos, td_tempo, td_sig, td_result>>
varsES == <<tempos, signatures, events, stream, idx, pc,
            curr_time, curr_position, curr_tempo, curr_signature, output,
            history>>
varsTree == <<event_list, pages_gen, lines_gen, tpc, page_lines, book,
              yielded_pages, yielded_lines>>
varsCls == <<cls_text, elm_result, helpers_result>>
varsMain == <<args_json, args_elm, cue_file, section_i, bound, output_list,
              mpc, raised, json_file, elm_file>>
vars == <<varsTD, varsES, varsTree, varsCls, varsMain>>

(***************************************************************************)
(* decimal.Decimal under Python's default context: every operation returns *)
(* the exact result rounded to 28 significant digits, ROUND_HALF_EVEN.     *)
(* A Decimal is [neg, c, e]: sign, coefficient as a sequence of decimal    *)
(* digits, least significant first and without leading zeros, exponent.    *)
(* TLC's integers are 32 bits wide, so coefficients are digit sequences.   *)
(***************************************************************************)
Prec == 28

TICKS_PER_BEAT == 960

RECURSIVE Digits(_)
Digits(n) == IF n = 0 THEN <<>> ELSE <<n % 10>> \o Digits(n \div 10)

\* c without its leading (most significant) zeros
Strip(c) ==
    LET nz == {i \in 1..Len(c) : c[i] # 0}
    IN  IF nz = {} THEN <<>>
        ELSE SubSeq(c, 1, CHOOSE i \in nz : \A j \in nz : j <= i)

Zeros(k) == [i \in 1..k |-> 0]

Abs(n) == IF n < 0 THEN 0 - n ELSE n

\* carry propagation: a sequence of naturals (least significant first) to digits
RECURSIVE Carry(_, _, _)
Carry(s, i, carry) ==
    IF i > Len(s) THEN Digits(carry)
    ELSE LET v == s[i] + carry
         IN  <<v % 10>> \o Carry(s, i + 1, v \div 10)

AddSeq(a, b) ==
    LET n == IF Len(a) > Len(b) THEN Len(a) ELSE Len(b)
        s == [i \in 1..n |-> (IF i <= Len(a) THEN a[i] ELSE 0)
                             + (IF i <= Len(b) THEN b[i] ELSE 0)]
    IN  Strip(Carry(s, 1, 0))

\* sum of a[i] * b[k + 1 - i] over the i in range
RECURSIVE Conv(_, _, _, _)
Conv(a, b, k, i) ==
    IF i > Len(a) \/ i > k THEN 0
    ELSE (IF k + 1 - i <= Len(b) THEN a[i] * b[k + 1 - i] ELSE 0)
         + Conv(a, b, k, i + 1)

MulSeq(a, b) ==
    IF a = <<>> \/ b = <<>> THEN <<>>
    ELSE LET s == [k \in 1..(Len(a) + Len(b) - 1) |-> Conv(a, b, k, 1)]
         IN  Strip(Carry(s, 1, 0))

RECURSIVE SeqToInt(_)
SeqToInt(c) == IF c = <<>> THEN 0 ELSE c[1] + 10 * SeqToInt(Tail(c))

\* The context's rounding: more than Prec digits are cut to Prec, half-even.
\* sticky says that non-zero digits follow below the coefficient given.
DRound(neg, c, e, sticky) ==
    IF Len(c) <= Prec THEN [neg |-> neg, c |-> c, e |-> e]
    ELSE LET drop == Len(c) - Prec
             g    == c[drop]
             rest == sticky \/ \E i \in 1..(drop - 1) : c[i] # 0
             kept == SubSeq(c, drop + 1, Len(c))
             up   == g > 5 \/ (g = 5 /\ (rest \/ kept[1] % 2 = 1))
             k2   == IF up THEN AddSeq(kept, <<1>>) ELSE kept
         IN  IF Len(k2) > Prec
             THEN [neg |-> neg, c |-> SubSeq(k2, 2, Len(k2)), e |-> e + drop + 1]
             ELSE [neg |-> neg, c |-> k2, e |-> e + drop]

\* Decimal(n) of an int
DInt(n) == [neg |-> n < 0, c |-> Digits(Abs(n)), e |-> 0]

\* long division a / b, digit by digit, until exact or Prec + 1 digits
RECURSIVE DivDigits(_, _, _, _)
DivDigits(c, r, b, e) ==
    IF r = 0 \/ Len(c) > Prec THEN [c |-> c, e |-> e, sticky |-> r # 0]
    ELSE LET d == (r * 10) \div b
         IN  DivDigits(IF c = <<>> /\ d = 0 THEN c ELSE <<d>> \o c,
                       (r * 10) % b, b, e - 1)

\* Decimal(a) / Decimal(b) for ints a >= 0 and b # 0
DDiv(a, b) ==
    LET q == DivDigits(Digits(a \div Abs(b)), a % Abs(b), Abs(b), 0)
    IN  DRound(b < 0 /\ a # 0, q.c, q.e, q.sticky)

DMul(x, y) ==
    DRound(x.neg # y.neg, MulSeq(x.c, y.c), x.e + y.e, FALSE)

\* x + y for x, y >= 0
DAdd(x, y) ==
    LET e  == IF x.e < y.e THEN x.e ELSE y.e
        xc == IF x.c = <<>> THEN <<>> ELSE Zeros(x.e - e) \o x.c
        yc == IF y.c = <<>> THEN <<>> ELSE Zeros(y.e - e) \o y.c
    IN  DRound(FALSE, AddSeq(xc, yc), e, FALSE)

\* int(x): truncation toward zero
DToInt(x) ==
    LET m == IF x.c = <<>> THEN 0
             ELSE IF x.e >= 0 THEN SeqToInt(Zeros(x.e) \o x.c)
             ELSE IF 0 - x.e >= Len(x.c) THEN 0
             ELSE SeqToInt(SubSeq(x.c, 1 - x.e, Len(x.c)))
    IN  IF x.neg THEN 0 - m ELSE m

(***************************************************************************)
(* Position, TimeSignature and Position.to_timedelta.  A Position holds    *)
(* the zero-indexed axes (the converters int_to_zero_index and             *)
(* strip_int_trailing_period have been applied).                           *)
(***************************************************************************)
Pos(measure, beat, division, tick) ==
    [measure |-> measure, beat |-> beat, division |-> division, tick |-> tick]

TimeSignature(beats, division) == [beats |-> beats, division |-> division]

int_to_zero_index(s) == s - 1

\* Position(measure, beat, division, tick) of the 1-indexed source fields
Position(measure, beat, division, tick) ==
    Pos(int_to_zero_index(measure), int_to_zero_index(beat),
        int_to_zero_index(division), int_to_zero_index(tick))

seconds_per_beat(tempo) == DDiv(60, tempo)

\* Decimal(60) / Decimal(0) and x / Decimal(0) raise (DivisionByZero,
\* InvalidOperation for 0 / 0)
Raises(tempo, time_signature) == tempo = 0 \/ time_signature.division = 0

\* microseconds of the timedelta returned
to_timedelta(self, tempo, time_signature) ==
    DToInt(
        DMul(
            DMul(seconds_per_beat(tempo), DInt(1000000)),
            DAdd(
                DAdd(DInt((self.measure * time_signature.beats) + self.beat),
                     DDiv(self.division, time_signature.division)),
                DDiv(self.tick, TICKS_PER_BEAT))))

(***************************************************************************)
(* parsing/helpers.py: the break markers, the predicates and groupwhile.   *)
(* A text is a sequence of characters; the three markers are the           *)
(* characters BULLET, NOT_SIGN and PILCROW.                                *)
(***************************************************************************)
SeqsUpTo(S, n) == UNION {[1..k -> S] : k \in 0..n}

BULLET == "bullet"
NOT_SIGN == "not-sign"
PILCROW == "pilcrow"
SPACE == " "

BREAK_TYPE_MAPPING ==
    [Syllable |-> BULLET, Line |-> NOT_SIGN, Page |-> PILCROW]

\* text.endswith(c) for a one-character c
endswith(text, c) == text # <<>> /\ text[Len(text)] = c

\* helpers.text_with_break_type
helpers_text_with_break_type(text) ==
    IF text # <<>> /\ \E k \in DOMAIN BREAK_TYPE_MAPPING :
                          text[Len(text)] = BREAK_TYPE_MAPPING[k]
    THEN SubSeq(text, 1, Len(text) - 1)
    ELSE IF text # <<>> /\ endswith(text, BREAK_TYPE_MAPPING["Syllable"])
    THEN SubSeq(text, 1, Len(text) - 1)
    ELSE text \o <<SPACE>>

has_break(break_types, lyric) ==
    \E break_type \in break_types :
        endswith(lyric.text, BREAK_TYPE_MAPPING[break_type])

no_break(break_types, lyric) == ~has_break(break_types, lyric)

\* the deque left as it is
deque_clear_not(inner) == inner

\* inner.clear()
deque_clear(inner) == <<>>

\* a groupwhile generator: its deque, the items it has taken from its
\* iterable, and where it stands: "start" (not begun), "yielded" (at the
\* yield inside the loop), "last" (at the final yield), "done" (returned)
NewGenerator == [inner |-> <<>>, pos |-> 0, at |-> "start"]

\* the loop, with no final group when nothing is pending
RECURSIVE groupwhile_loop_skip_empty(_, _, _)
groupwhile_loop_skip_empty(break_types, g, iterable) ==
    IF g.pos >= Len(iterable)
    THEN [g EXCEPT !.at = IF g.inner = <<>> THEN "done" ELSE "last"]
    ELSE LET i == iterable[g.pos + 1]
             appended == [g EXCEPT !.inner = Append(@, i), !.pos = @ + 1]
         IN  IF ~no_break(break_types, i)
             THEN [appended EXCEPT !.at = "yielded"]
             ELSE groupwhile_loop_skip_empty(break_types, appended, iterable)

\* the loop of groupwhile from the generator's place to its next yield, the
\* predicate being partial(no_break, break_types)
RECURSIVE groupwhile_loop(_, _, _)
groupwhile_loop(break_types, g, iterable) ==
    IF g.pos >= Len(iterable)
    THEN [g EXCEPT !.at = "last"]
    ELSE LET i == iterable[g.pos + 1]
             appended == [g EXCEPT !.inner = Append(@, i), !.pos = @ + 1]
         IN  IF ~no_break(break_types, i)
             THEN [appended EXCEPT !.at = "yielded"]
             ELSE groupwhile_loop(break_types, appended, iterable)

\* next() of the generator: resumed after a yield inside the loop it first
\* clears its deque; resumed after the final yield it returns
groupwhile_next(break_types, g, iterable) ==
    IF g.at = "start" THEN groupwhile_loop(break_types, g, iterable)
    ELSE IF g.at = "yielded"
    THEN groupwhile_loop(break_types,
                         [g EXCEPT !.inner = deque_clear(@)], iterable)
    ELSE [g EXCEPT !.at = "done"]

(***************************************************************************)
(* elm_output.print_lyrics_tree: three nested list comprehensions.  A      *)
(* group a generator yields is the generator's own deque, read when the    *)
(* comprehension below it runs.                                            *)
(***************************************************************************)
MaxTokens == 4

TokenTexts ==
    {<<"a">>, <<"a", BULLET>>, <<"a", NOT_SIGN>>, <<"a", PILCROW>>}

\* what lyric_template.format receives for a token
Lyric(token) ==
    [text |-> helpers_text_with_break_type(token.text), time |-> token.time]

IdleTree ==
    /\ event_list = <<>> /\ pages_gen = NewGenerator
    /\ lines_gen = NewGenerator /\ tpc = "idle" /\ page_lines = <<>>
    /\ book = <<>> /\ yielded_pages = <<>> /\ yielded_lines = <<>>

IdleCls == cls_text = <<>> /\ elm_result = <<>> /\ helpers_result = <<>>

IdleMain ==
    /\ args_json = FALSE /\ args_elm = FALSE /\ cue_file = <<>>
    /\ section_i = 1 /\ bound = {} /\ output_list = <<>> /\ mpc = "idle"
    /\ raised = "" /\ json_file = "absent" /\ elm_file = "absent"

IdleTD ==
    /\ td_pos = [measure |-> 0, beat |-> 0, division |-> 0, tick |-> 0]
    /\ td_tempo = 120
    /\ td_sig = [beats |-> 4, division |-> 4] /\ td_result = <<>>

IdleES ==
    /\ tempos = <<>> /\ signatures = <<>> /\ events = <<>> /\ stream = <<>>
    /\ idx = 1 /\ pc = "idle" /\ curr_time = 0
    /\ curr_position = [measure |-> 0, beat |-> 0, division |-> 0, tick |-> 0]
    /\ curr_tempo = 120 /\ curr_signature = [beats |-> 4, division |-> 4]
    /\ output = <<>> /\ history = <<>>

InitTree ==
    /\ IdleTD /\ IdleES /\ IdleCls /\ IdleMain
    /\ \E texts \in SeqsUpTo(TokenTexts, MaxTokens) :
           event_list = [i \in 1..Len(texts) |->
                            [text |-> texts[i], time |-> i]]
    /\ pages_gen = NewGenerator
    /\ lines_gen = NewGenerator
    /\ tpc = "pages"
    /\ page_lines = <<>>
    /\ book = <<>>
    /\ yielded_pages = <<>>
    /\ yielded_lines = <<>>

\* for page in groupwhile(partial(no_break, ['Page']), event_list)
NextPage ==
    /\ tpc = "pages"
    /\ LET g == groupwhile_next({"Page"}, pages_gen, event_list)
       IN  /\ pages_gen' = g
           /\ IF g.at = "done"
              THEN /\ tpc' = "done"
                   /\ UNCHANGED <<lines_gen, page_lines, yielded_pages,
                                  yielded_lines>>
              ELSE /\ tpc' = "lines"
                   /\ lines_gen' = NewGenerator
                   /\ page_lines' = <<>>
                   /\ yielded_pages' = Append(yielded_pages, g.inner)
                   /\ yielded_lines' = Append(yielded_lines, <<>>)
    /\ UNCHANGED <<event_list, book, varsTD, varsES, varsCls, varsMain>>

\* for line in groupwhile(partial(no_break, ['Line']), page): page is the
\* deque of the pages generator
NextLine ==
    /\ tpc = "lines"
    /\ LET g == groupwhile_next({"Line"}, lines_gen, pages_gen.inner)
       IN  /\ lines_gen' = g
           /\ IF g.at = "done"
              THEN /\ tpc' = "pages"
                   /\ book' = Append(book, page_lines)
                   /\ UNCHANGED yielded_lines
              ELSE /\ tpc' = "tokens"
                   /\ yielded_lines' =
                          [yielded_lines EXCEPT ![Len(yielded_lines)] =
                               Append(@, g.inner)]
                   /\ UNCHANGED book
    /\ UNCHANGED <<event_list, pages_gen, page_lines, yielded_pages, varsTD,
                   varsES, varsCls, varsMain>>

\* [lyric_template.format(...) for token in line]: line is the deque of the
\* lines generator
ConsumeLine ==
    /\ tpc = "tokens"
    /\ page_lines' = Append(page_lines,
                            [i \in 1..Len(lines_gen.inner) |->
                                Lyric(lines_gen.inner[i])])
    /\ tpc' = "lines"
    /\ UNCHANGED <<event_list, pages_gen, lines_gen, book, yielded_pages,
                   yielded_lines, varsTD, varsES, varsCls, varsMain>>

NextTree == NextPage \/ NextLine \/ ConsumeLine

(***************************************************************************)
(* The inputs of the model.                                                *)
(***************************************************************************)
MaxTempos == 1
MaxSignatures == 1
MaxEvents == 2

P1 == Pos(0, 0, 0, 2)
P2 == Pos(0, 3, 0, 0)
P3 == Pos(1, 0, 0, 0)
P4 == Pos(1, 1, 2, 1)
NotePositions == {P1, P2, P3, P4}
ChangePositions == {P1, P3}
Origin == Position(1, 1, 1, 1)
DefaultTempo == 120
DefaultSignature == TimeSignature(4, 4)

TempoValues == {90, 125}
DegenerateTempos == {0, 0 - 60}
Meters == {TimeSignature(2, 4), TimeSignature(6, 8)}
DegenerateMeters == {TimeSignature(4, 0)}

TempoEvent(position, tempo) ==
    [kind |-> "tempo", position |-> position, tempo |-> tempo]
TimeSignatureEvent(position, time_signature) ==
    [kind |-> "signature", position |-> position,
     time_signature |-> time_signature]
NoteEvent(position, title) ==
    [kind |-> "note", position |-> position, title |-> title]

\* every timedelta the runs of the model ask for, computed once
AllPositions == NotePositions \cup ChangePositions \cup {Origin}
AllTempos == TempoValues \cup {DefaultTempo} \cup (DegenerateTempos \ {0})
AllMeters == Meters \cup {DefaultSignature}
Timedeltas ==
    {<<a, to_timedelta(a[1], a[2], a[3])>> :
        a \in AllPositions \X AllTempos \X AllMeters}
timedelta_of(position, tempo, time_signature) ==
    (CHOOSE r \in Timedeltas : r[1] = <<position, tempo, time_signature>>)[2]

(***************************************************************************)
(* EventStream                                                             *)
(***************************************************************************)
\* the order attrs gives Position: that of the tuples of its fields
PosLT(p, q) ==
    \/ p.measure < q.measure
    \/ p.measure = q.measure /\ p.beat < q.beat
    \/ p.measure = q.measure /\ p.beat = q.beat /\ p.division < q.division
    \/ p.measure = q.measure /\ p.beat = q.beat /\ p.division = q.division
       /\ p.tick < q.tick

\* x goes behind every element that is not greater than it
Insert(s, x) ==
    LET n == Cardinality({i \in 1..Len(s) : ~PosLT(x.position, s[i].position)})
    IN  SubSeq(s, 1, n) \o <<x>> \o SubSeq(s, n + 1, Len(s))

\* the items as they come, not sorted
sorted_not(items) == items

\* sorted(items, key=operator.attrgetter('position')): a stable sort
RECURSIVE sorted(_)
sorted(items) ==
    IF items = <<>> THEN <<>>
    ELSE Insert(sorted(SubSeq(items, 1, Len(items) - 1)), items[Len(items)])

\* the payload events chained ahead of the change events
chain_events_first(ts, ss, es) == es \o ts \o ss

\* itertools.chain(tempos, signatures, events)
chain(ts, ss, es) == ts \o ss \o es

\* EventStream.__init__: the state of a new stream
EventStream(ts, ss, es) ==
    [stream |-> sorted(chain(ts, ss, es)),
     curr_time |-> 0,
     curr_position |-> Origin,
     curr_tempo |-> DefaultTempo,
     curr_signature |-> DefaultSignature,
     output |-> <<>>,
     raised |-> FALSE]

_compute_time(self, event) ==
    self.curr_time
    + timedelta_of(event.position, self.curr_tempo, self.curr_signature)
    - timedelta_of(self.curr_position, self.curr_tempo, self.curr_signature)

\* the event applied before its time is computed
advance_apply_first(self, item) ==
    LET applied ==
            IF item.kind = "tempo"
            THEN [self EXCEPT !.curr_tempo = item.tempo]
            ELSE IF item.kind = "signature"
            THEN [self EXCEPT !.curr_signature = item.time_signature]
            ELSE self
        new_time == _compute_time(applied, item)
        emitted ==
            IF item.kind = "note"
            THEN [applied EXCEPT !.output =
                      Append(@, [time |-> new_time, item |-> item])]
            ELSE applied
    IN  [emitted EXCEPT !.curr_time = new_time,
                        !.curr_position = item.position]

\* the anchor position moved by the change events only
advance_keep_anchor(self, item) ==
    LET new_time == _compute_time(self, item)
    IN  IF item.kind = "tempo"
        THEN [self EXCEPT !.curr_tempo = item.tempo, !.curr_time = new_time,
                          !.curr_position = item.position]
        ELSE IF item.kind = "signature"
        THEN [self EXCEPT !.curr_signature = item.time_signature,
                          !.curr_time = new_time,
                          !.curr_position = item.position]
        ELSE [self EXCEPT !.output =
                              Append(@, [time |-> new_time, item |-> item]),
                          !.curr_time = new_time]

\* one pass of the loop of event_times over item
advance(self, item) ==
    IF Raises(self.curr_tempo, self.curr_signature)
    THEN [self EXCEPT !.raised = TRUE]
    ELSE LET new_time == _compute_time(self, item)
             applied ==
                 IF item.kind = "tempo"
                 THEN [self EXCEPT !.curr_tempo = item.tempo]
                 ELSE IF item.kind = "signature"
                 THEN [self EXCEPT !.curr_signature = item.time_signature]
                 ELSE [self EXCEPT !.output =
                           Append(@, [time |-> new_time, item |-> item])]
         IN  [applied EXCEPT !.curr_time = new_time,
                             !.curr_position = item.position]

\* the whole of event_times on a stream: the list main collects
RECURSIVE event_times(_, _)
event_times(self, i) ==
    IF i > Len(self.stream) \/ self.raised THEN self
    ELSE event_times(advance(self, self.stream[i]), i + 1)

Self ==
    [stream |-> stream, curr_time |-> curr_time,
     curr_position |-> curr_position, curr_tempo |-> curr_tempo,
     curr_signature |-> curr_signature, output |-> output, raised |-> FALSE]

InitStream(TV, MV) ==
    /\ tempos \in SeqsUpTo({TempoEvent(p, t) : p \in ChangePositions, t \in TV},
                           MaxTempos)
    /\ signatures \in SeqsUpTo({TimeSignatureEvent(p, m) :
                                    p \in ChangePositions, m \in MV},
                               MaxSignatures)
    /\ \E ps \in SeqsUpTo(NotePositions, MaxEvents) :
           events = [i \in 1..Len(ps) |-> NoteEvent(ps[i], i)]
    /\ LET self == EventStream(tempos, signatures, events)
       IN  /\ stream = self.stream
           /\ curr_time = self.curr_time
           /\ curr_position = self.curr_position
           /\ curr_tempo = self.curr_tempo
           /\ curr_signature = self.curr_signature
           /\ output = self.output
    /\ idx = 1
    /\ pc = "walk"
    /\ history = <<>>

\* event_times: the loop body on the next item of the stream
Step ==
    /\ pc = "walk"
    /\ idx <= Len(stream)
    /\ LET self == advance(Self, stream[idx])
       IN  IF self.raised
           THEN /\ pc' = "raised"
                /\ UNCHANGED <<idx, curr_time, curr_position, curr_tempo,
                               curr_signature, output, history>>
           ELSE /\ curr_time' = self.curr_time
                /\ curr_position' = self.curr_position
                /\ curr_tempo' = self.curr_tempo
                /\ curr_signature' = self.curr_signature
                /\ output' = self.output
                /\ idx' = idx + 1
                /\ history' = Append(history,
                                     [time |-> self.curr_time,
                                      tempo |-> self.curr_tempo,
                                      signature |-> self.curr_signature])
                /\ pc' = pc
    /\ UNCHANGED <<tempos, signatures, events, stream, varsTD, varsTree,
                   varsCls, varsMain>>

\* the stream is exhausted: the generator returns
Finish ==
    /\ pc = "walk"
    /\ idx > Len(stream)
    /\ pc' = "done"
    /\ UNCHANGED <<tempos, signatures, events, stream, idx, curr_time,
                   curr_position, curr_tempo, curr_signature, output, history,
                   varsTD, varsTree, varsCls, varsMain>>

Init ==
    /\ InitStream(TempoValues, Meters)
    /\ IdleTD /\ IdleTree /\ IdleCls /\ IdleMain
Next == Step \/ Finish
Spec == Init /\ [][Next]_vars

(***************************************************************************)
(* Properties of EventStream                                               *)
(***************************************************************************)
Count(s, x) == Cardinality({i \in 1..Len(s) : s[i] = x})

\* the stream holds the events of the three lists, in position order
SortedMerge ==
    /\ Len(stream) = Len(tempos) + Len(signatures) + Len(events)
    /\ \A i \in 1..Len(stream) :
           Count(stream, stream[i])
           = Count(tempos \o signatures \o events, stream[i])
    /\ \A i, j \in 1..Len(stream) :
           i < j => ~PosLT(stream[j].position, stream[i].position)

\* the walk is at its start
AtStart ==
    /\ curr_position = Pos(0, 0, 0, 0)
    /\ curr_time = 0
    /\ curr_tempo = 120
    /\ curr_signature = TimeSignature(4, 4)
    /\ idx = 1
    /\ output = <<>>

\* what one step does to the state, given the event it is on
StepEffect ==
    LET event == stream[idx]
        newTime ==
            curr_time
            + timedelta_of(event.position, curr_tempo, curr_signature)
            - timedelta_of(curr_position, curr_tempo, curr_signature)
    IN  /\ idx' = idx + 1
        /\ curr_time' = newTime
        /\ curr_position' = event.position
        /\ curr_tempo' = IF event.kind = "tempo" THEN event.tempo
                         ELSE curr_tempo
        /\ curr_signature' = IF event.kind = "signature"
                             THEN event.time_signature ELSE curr_signature
        /\ output' = IF event.kind = "note"
                     THEN Append(output, [time |-> newTime, item |-> event])
                     ELSE output

\* C1: event_times walks the position-sorted merged stream once from the
\* state (0,0,0,0), 0, 120, 4/4; at every event the new time is the anchor
\* time plus the difference of the times of the event's position and of the
\* anchor position, both under the tempo and meter active before the event;
\* the event is then applied (tempo, meter, or emission of the payload with
\* the new time) and the anchor always moves to the event.
C1_EventTimesAdvance ==
    /\ AtStart /\ SortedMerge
    /\ [][ (idx' # idx \/ curr_time' # curr_time
            \/ curr_position' # curr_position \/ curr_tempo' # curr_tempo
            \/ curr_signature' # curr_signature \/ output' # output)
           => StepEffect ]_vars

C1_Witness ==
    /\ pc = "done"
    /\ \E i \in 1..Len(stream) : stream[i].kind = "tempo"
    /\ \E i \in 1..Len(stream) : stream[i].kind = "signature"
    /\ Len(output) = 2
    /\ output[2].time > output[1].time
    /\ output[1].time > 0

\* the anchor position and the meter with which step k computes
AnchorAt(k) == IF k = 1 THEN Origin ELSE stream[k - 1].position
MeterAt(k) == IF k = 1 THEN DefaultSignature ELSE history[k - 1].signature
TimeBefore(k) == IF k = 1 THEN 0 ELSE history[k - 1].time

\* p lies inside its bar, beat and division under meter m
InRange(p, m) ==
    /\ p.measure >= 0
    /\ p.beat >= 0 /\ p.beat < m.beats
    /\ p.division >= 0 /\ p.division < m.division
    /\ p.tick >= 0 /\ p.tick * m.division < TICKS_PER_BEAT

StepInRange(k) ==
    /\ InRange(AnchorAt(k), MeterAt(k))
    /\ InRange(stream[k].position, MeterAt(k))

Ascending(out) ==
    \A i, j \in 1..Len(out) : i < j => out[i].time <= out[j].time

\* C2 as stated: the anchor time never decreases, whatever the positions,
\* and the emitted pairs are in ascending time order.
C2_MonotoneAnyInput ==
    /\ \A k \in 1..Len(history) : history[k].time >= TimeBefore(k)
    /\ Ascending(output)

\* C2 (amended): a step does not decrease the anchor time when the anchor
\* position and the event's position both lie inside their bar, beat and
\* division under the meter active at that step; when every step so far is
\* such a step, the emitted pairs are in ascending time order.
C2_MonotoneInRange ==
    /\ \A k \in 1..Len(history) :
           StepInRange(k) => history[k].time >= TimeBefore(k)
    /\ (\A k \in 1..Len(history) : StepInRange(k)) => Ascending(output)

C2_Witness ==
    /\ pc = "done"
    /\ Len(history) >= 4
    /\ \A k \in 1..Len(history) : StepInRange(k)
    /\ \E k \in 1..Len(history) : stream[k].kind = "signature"
    /\ \E k \in 1..Len(history) : stream[k].kind = "tempo"
    /\ Len(output) = 2 /\ output[1].time < output[2].time

\* the place in the output of the payload that step j emitted
OutputIndex(j) == Cardinality({i \in 1..j : stream[i].kind = "note"})

\* C3: a payload at the position of a tempo change is sorted behind the
\* change (tempos, then signatures, then payloads at one position) and,
\* coming right after it, is emitted with the time computed for the change;
\* a payload strictly after the change, with no other change in between but
\* signature changes at the position of the tempo change, is emitted with
\* the time of the change plus its distance from the change's position
\* under the new tempo.
C3_TempoChangeAtPayload ==
    /\ \A i, j \in 1..Len(stream) :
           /\ stream[i].position = stream[j].position
           /\ \/ stream[i].kind = "tempo" /\ stream[j].kind # "tempo"
              \/ stream[i].kind = "signature" /\ stream[j].kind = "note"
           => i < j
    /\ \A i, j \in 1..Len(history) :
           /\ stream[i].kind = "tempo" /\ stream[j].kind = "note"
           /\ j = i + 1
           /\ stream[j].position = stream[i].position
           => /\ history[j].time = history[i].time
              /\ output[OutputIndex(j)].time = history[i].time
              /\ output[OutputIndex(j)].item = stream[j]
    /\ \A i, j \in 1..Len(history) :
           /\ i < j
           /\ stream[i].kind = "tempo" /\ stream[j].kind = "note"
           /\ PosLT(stream[i].position, stream[j].position)
           /\ \A k \in (i + 1)..(j - 1) :
                  \/ stream[k].kind = "note"
                  \/ /\ stream[k].kind = "signature"
                     /\ stream[k].position = stream[i].position
           => output[OutputIndex(j)].time
              = history[i].time
                + timedelta_of(stream[j].position, stream[i].tempo,
                               MeterAt(j))
                - timedelta_of(stream[i].position, stream[i].tempo,
                               MeterAt(j))

C3_Witness ==
    /\ pc = "done"
    /\ Len(stream) = 3
    /\ stream[1].kind = "tempo"
    /\ stream[2].kind = "note" /\ stream[2].position = stream[1].position
    /\ stream[3].kind = "note"
    /\ PosLT(stream[1].position, stream[3].position)
    /\ output[1].time = history[1].time
    /\ output[2].time > output[1].time

\* the time a payload gets in the run that has the same tempo and meter
\* changes and no other payload
TimeAlone(item) ==
    event_times(EventStream(tempos, signatures, <<item>>), 1).output[1].time

\* the same, with the changes at later positions left out as well
NotAfter(item, changes) ==
    SelectSeq(changes, LAMBDA c : ~PosLT(item.position, c.position))
TimeAloneBefore(item) ==
    event_times(EventStream(NotAfter(item, tempos),
                            NotAfter(item, signatures), <<item>>),
                1).output[1].time

\* C10: the time emitted for a payload is the time it is emitted with when
\* it is the only payload of the stream, with or without the changes at
\* later positions: it depends on its position and on the tempo and meter
\* changes sorted before it, not on the other payloads.
C10_PayloadTimeIndependent ==
    \A n \in 1..Len(output) :
        /\ output[n].time = TimeAlone(output[n].item)
        /\ output[n].time = TimeAloneBefore(output[n].item)

C10_Witness ==
    /\ pc = "done"
    /\ Len(output) = 2
    /\ output[1].item.position # output[2].item.position
    /\ \E i \in 1..Len(stream) :
           /\ stream[i].kind = "tempo"
           /\ PosLT(stream[i].position, output[1].item.position)
    /\ output[2].time # output[1].time

(***************************************************************************)
(* The stream with degenerate tempos and meters among its inputs           *)
(***************************************************************************)
InitDegenerate ==
    /\ InitStream(TempoValues \cup DegenerateTempos,
                  Meters \cup DegenerateMeters)
    /\ IdleTD /\ IdleTree /\ IdleCls /\ IdleMain
SpecDegenerate == InitDegenerate /\ [][Next]_vars

HasDegenerate ==
    \/ \E i \in 1..Len(tempos) : tempos[i].tempo <= 0
    \/ \E i \in 1..Len(signatures) : signatures[i].time_signature.division <= 0

\* C8: a run whose input holds a tempo <= 0 or a meter denominator <= 0
\* computes and emits no event time at all (the input is rejected first),
\* and no negative time is produced.
C8_DegenerateRejected ==
    HasDegenerate =>
        /\ idx = 1 /\ history = <<>> /\ output = <<>>
        /\ pc # "done"
        /\ curr_time >= 0

(***************************************************************************)
(* Position.to_timedelta on its own                                        *)
(***************************************************************************)
TDPositions ==
    {Pos(m, b, d, t) : m \in 0..2, b \in {0, 1, 3}, d \in {0, 1, 3},
                       t \in {0, 1, 2, 239}}
TDTempos == {60, 90, 120, 125}
TDMeters == {TimeSignature(4, 4), TimeSignature(3, 4), TimeSignature(6, 8)}

InitTD ==
    /\ td_pos \in TDPositions
    /\ td_tempo \in TDTempos
    /\ td_sig \in TDMeters
    /\ td_result = <<>>
    /\ IdleES /\ IdleTree /\ IdleCls /\ IdleMain

\* self.to_timedelta(tempo, time_signature)
Convert ==
    /\ td_result = <<>>
    /\ td_result' = <<to_timedelta(td_pos, td_tempo, td_sig)>>
    /\ UNCHANGED <<td_pos, td_tempo, td_sig, varsES, varsTree, varsCls,
                   varsMain>>

SpecTD == InitTD /\ [][Convert]_vars

\* floor of (60 / tempo) * 1000000 * (measure * beats + beat
\* + division / beatUnit + tick / 960), for tempo > 0 and beatUnit > 0:
\* with x the position in units of 1 / (960 * beatUnit) beat, that is
\* floor(62500 * x / (tempo * beatUnit)), computed without overflow
ExactMicros(p, tempo, m) ==
    LET x == TICKS_PER_BEAT * m.division * (p.measure * m.beats + p.beat)
             + TICKS_PER_BEAT * p.division + m.division * p.tick
        d == tempo * m.division
        k == (60 * 1000000) \div TICKS_PER_BEAT
    IN  x * (k \div d) + ((x * (k % d)) \div d)

\* C4: to_timedelta returns the exact value of (60 / tempo) * 1000000 *
\* (bar * beatsPerMeasure + beat + subdivision / beatUnit + tick / 960)
\* truncated to whole microseconds.
C4_ExactTruncation ==
    td_result # <<>> => td_result[1] = ExactMicros(td_pos, td_tempo, td_sig)

(***************************************************************************)
(* print_lyrics_tree                                                       *)
(***************************************************************************)
SpecTree == InitTree /\ [][NextTree]_vars

RECURSIVE Concat(_)
Concat(groups) ==
    IF groups = <<>> THEN <<>> ELSE Head(groups) \o Concat(Tail(groups))

Failing(break_types, items) ==
    {i \in 1..Len(items) : ~no_break(break_types, items[i])}

\* groups are the groups groupwhile yields for items
GroupsOf(break_types, items, groups) ==
    /\ Len(groups) = Cardinality(Failing(break_types, items)) + 1
    /\ \A k \in 1..(Len(groups) - 1) :
           /\ groups[k] # <<>>
           /\ Failing(break_types, groups[k]) = {Len(groups[k])}
    /\ Failing(break_types, groups[Len(groups)]) = {}
    /\ (items = <<>> \/ ~no_break(break_types, items[Len(items)]))
           => groups[Len(groups)] = <<>>
    /\ Concat(groups) = items

\* C5: the groups groupwhile yields: one more than the items failing the
\* predicate; every group but the last ends with a failing item and holds
\* no other; the last holds none and is empty when the input is empty or
\* ends with a failing item; together they are the input.  Checked of the
\* pages generator when it has returned and of the lines generator of each
\* finished page.
C5_GroupwhileGroups ==
    /\ tpc = "done" => GroupsOf({"Page"}, event_list, yielded_pages)
    /\ \A k \in 1..Len(book) :
           GroupsOf({"Line"}, yielded_pages[k], yielded_lines[k])

C5_Witness ==
    /\ tpc = "done"
    /\ Len(yielded_pages) = 3
    /\ Len(yielded_pages[1]) = 2
    /\ yielded_pages[3] = <<>>
    /\ Len(yielded_lines[1]) = 2

\* C6: the tokens of all lines of all pages of the book, in output order,
\* are the input tokens, each once and in input order, and every line of a
\* finished page holds the tokens its deque held when it was yielded.
C6_TreePreservesOrder ==
    /\ tpc = "done" =>
           Concat(Concat(book)) = [i \in 1..Len(event_list) |->
                                      Lyric(event_list[i])]
    \* each line was read as it had been yielded
    /\ \A k \in 1..Len(book) :
           book[k] = [l \in 1..Len(yielded_lines[k]) |->
                         [i \in 1..Len(yielded_lines[k][l]) |->
                             Lyric(yielded_lines[k][l][i])]]

C6_Witness ==
    /\ tpc = "done"
    /\ Len(event_list) = MaxTokens
    /\ Len(book) >= 2
    /\ Len(book[1]) >= 2
    /\ book[1][1] # <<>> /\ book[1][2] # <<>> /\ book[2][1] # <<>>

(***************************************************************************)
(* The two break classifiers                                               *)
(***************************************************************************)
MaxTextLen == 3

Characters == {"a", SPACE, BULLET, NOT_SIGN, PILCROW}

ELM_BREAK_TYPE_MAPPING ==
    [c \in {BULLET, NOT_SIGN, PILCROW} |->
        IF c = BULLET THEN "Syllable"
        ELSE IF c = NOT_SIGN THEN "Line" ELSE "Page"]

\* cue_reader.text_with_break_type
text_with_break_type(text) ==
    IF text # <<>> /\ text[Len(text)] \in DOMAIN ELM_BREAK_TYPE_MAPPING
    THEN <<SubSeq(text, 1, Len(text) - 1),
           ELM_BREAK_TYPE_MAPPING[text[Len(text)]]>>
    ELSE <<text, "Word">>

InitClassify ==
    /\ IdleTD /\ IdleES /\ IdleTree /\ IdleMain
    /\ cls_text \in SeqsUpTo(Characters, MaxTextLen)
    /\ elm_result = <<>>
    /\ helpers_result = <<>>

\* cue_reader.text_with_break_type(text), as write_elm_output of
\* cue_reader.py calls it
ClassifyElm ==
    /\ elm_result = <<>>
    /\ elm_result' = <<text_with_break_type(cls_text)>>
    /\ UNCHANGED <<cls_text, helpers_result, varsTD, varsES, varsTree,
                   varsMain>>

\* helpers.text_with_break_type(text), as print_lyrics_tree calls it
ClassifyHelpers ==
    /\ helpers_result = <<>>
    /\ helpers_result' = <<helpers_text_with_break_type(cls_text)>>
    /\ UNCHANGED <<cls_text, elm_result, varsTD, varsES, varsTree, varsMain>>

NextClassify == ClassifyElm \/ ClassifyHelpers
SpecClassify == InitClassify /\ [][NextClassify]_vars

IsMarker(c) == c \in {BULLET, NOT_SIGN, PILCROW}

\* the classification the claim describes
Classified(text) ==
    IF text # <<>> /\ IsMarker(text[Len(text)])
    THEN <<SubSeq(text, 1, Len(text) - 1),
           IF text[Len(text)] = BULLET THEN "Syllable"
           ELSE IF text[Len(text)] = NOT_SIGN THEN "Line" ELSE "Page">>
    ELSE <<text \o <<SPACE>>, "Word">>

\* C7: a text ending in a marker loses that one marker and is tagged with
\* the marker's break kind, no space added; any other text is tagged Word
\* and gets one trailing space.  The tagging classifier returns text and
\* tag, the classifier of the tree output the text.
C7_BreakClassifier ==
    /\ elm_result # <<>> => elm_result[1] = Classified(cls_text)
    /\ helpers_result # <<>> => helpers_result[1] = Classified(cls_text)[1]

(***************************************************************************)
(* cue_reader.main.  The cue file is the sequence of groups that           *)
(* parsed_sections yields: a section name and its data lines.  A line is   *)
(* "ok" with the event it parses to, "short" (too few fields), "nan" (a    *)
(* field that is no number) or, among the signatures, "other" (its fifth   *)
(* field is not Time).                                                     *)
(***************************************************************************)
MaxSections == 3
MaxEventLines == 2

OkLine(event) == [status |-> "ok", event |-> event]
BadLine(status) == [status |-> status, event |-> <<>>]

TempoLines ==
    {OkLine(TempoEvent(P1, 90)), OkLine(TempoEvent(P1, 0)),
     BadLine("short"), BadLine("nan")}
SignatureLines ==
    {OkLine(TimeSignatureEvent(P3, TimeSignature(2, 4))), BadLine("other"),
     BadLine("short"), BadLine("nan")}
EventLines ==
    {OkLine(NoteEvent(P3, "la")), BadLine("short"), BadLine("nan")}

Sections ==
    {[section |-> "tempo", data |-> <<l>>] : l \in TempoLines}
    \cup {[section |-> "signatures", data |-> <<l>>] : l \in SignatureLines}
    \cup {[section |-> "events", data |-> d] :
              d \in SeqsUpTo(EventLines, MaxEventLines) \ {<<>>}}
    \cup {[section |-> "bogus", data |-> <<BadLine("nan")>>]}

AllOk(data) == \A i \in 1..Len(data) : data[i].status = "ok"
EventsOf(data) == [i \in 1..Len(data) |-> data[i].event]

\* get_tempos(data): <<>> stands for the exception a from_string raises
get_tempos(data) == IF AllOk(data) THEN <<EventsOf(data)>> ELSE <<>>

\* get_signatures(data): validate raises on a short line, from_string on a
\* line that is no number; the lines validate turns down are left out
get_signatures(data) ==
    IF \E i \in 1..Len(data) : data[i].status \in {"short", "nan"}
    THEN <<>>
    ELSE <<EventsOf(SelectSeq(data, LAMBDA l : l.status = "ok"))>>

get_events(data) == IF AllOk(data) THEN <<EventsOf(data)>> ELSE <<>>

InitMain ==
    /\ IdleTD /\ IdleTree /\ IdleCls
    /\ args_json \in BOOLEAN
    /\ args_elm \in BOOLEAN
    /\ cue_file \in SeqsUpTo(Sections, MaxSections)
    \* itertools.groupby: neighbouring groups differ in their section
    /\ \A i \in 1..(Len(cue_file) - 1) :
           cue_file[i].section # cue_file[i + 1].section
    /\ section_i = 1
    /\ bound = {}
    /\ tempos = <<>> /\ signatures = <<>> /\ events = <<>>
    /\ stream = <<>> /\ idx = 1 /\ pc = "idle" /\ curr_time = 0
    /\ curr_position = Origin /\ curr_tempo = DefaultTempo
    /\ curr_signature = DefaultSignature /\ output = <<>> /\ history = <<>>
    /\ output_list = <<>>
    /\ mpc = "sections"
    /\ raised = ""
    /\ json_file = "absent"
    /\ elm_file = "absent"

frameMain == <<varsTD, varsTree, varsCls, args_json, args_elm, cue_file,
               stream, idx, pc, curr_time, curr_position, curr_tempo,
               curr_signature, output, history>>

\* one pass of the loop over parsed_sections(stream)
ParseSection ==
    /\ mpc = "sections"
    /\ section_i <= Len(cue_file)
    /\ LET section == cue_file[section_i].section
           data == cue_file[section_i].data
           parsed == IF section = "tempo" THEN get_tempos(data)
                     ELSE IF section = "signatures" THEN get_signatures(data)
                     ELSE IF section = "events" THEN get_events(data)
                     ELSE <<>>
       IN  IF parsed = <<>>
           THEN /\ mpc' = "failed"
                /\ raised' = IF section \in {"tempo", "signatures", "events"}
                             THEN "ValueError" ELSE "RuntimeError"
                /\ UNCHANGED <<tempos, signatures, events, bound, section_i>>
           ELSE /\ tempos' = IF section = "tempo" THEN parsed[1] ELSE tempos
                /\ signatures' = IF section = "signatures" THEN parsed[1]
                                 ELSE signatures
                /\ events' = IF section = "events" THEN parsed[1] ELSE events
                /\ bound' = bound \cup {section}
                /\ section_i' = section_i + 1
                /\ UNCHANGED <<mpc, raised>>
    /\ UNCHANGED <<frameMain, output_list, json_file, elm_file>>

\* event_stream = EventStream(tempos, signatures, events) and the list of
\* its event_times
Convert_events ==
    /\ mpc = "sections"
    /\ section_i > Len(cue_file)
    /\ IF bound # {"tempo", "signatures", "events"}
       THEN /\ mpc' = "failed" /\ raised' = "UnboundLocalError"
            /\ UNCHANGED output_list
       ELSE LET self == event_times(EventStream(tempos, signatures, events), 1)
            IN  IF self.raised
                THEN /\ mpc' = "failed" /\ raised' = "DivisionByZero"
                     /\ UNCHANGED output_list
                ELSE /\ output_list' =
                            [i \in 1..Len(self.output) |->
                                [text |-> self.output[i].item.title,
                                 time |-> self.output[i].time]]
                     /\ mpc' = "json"
                     /\ UNCHANGED raised
    /\ UNCHANGED <<frameMain, tempos, signatures, events, bound, section_i,
                   json_file, elm_file>>

\* if args.json: io.open(args.json, 'w') creates the file
OpenJson ==
    /\ mpc = "json"
    /\ IF args_json
       THEN json_file' = "empty" /\ mpc' = "dump"
       ELSE json_file' = json_file /\ mpc' = "elm"
    /\ UNCHANGED <<frameMain, tempos, signatures, events, bound, section_i,
                   output_list, raised, elm_file>>

\* json.dump(output_list, json_file, indent=4): the encoder writes chunk by
\* chunk and raises TypeError at the first time, a timedelta
DumpJson ==
    /\ mpc = "dump"
    /\ IF output_list = <<>>
       THEN json_file' = "complete" /\ mpc' = "elm" /\ UNCHANGED raised
       ELSE json_file' = "partial" /\ mpc' = "failed"
            /\ raised' = "TypeError"
    /\ UNCHANGED <<frameMain, tempos, signatures, events, bound, section_i,
                   output_list, elm_file>>

\* if args.elm: write_elm_output(args.elm, output_list)
WriteElm ==
    /\ mpc = "elm"
    /\ elm_file' = IF args_elm THEN "complete" ELSE elm_file
    /\ mpc' = "done"
    /\ UNCHANGED <<frameMain, tempos, signatures, events, bound, section_i,
                   output_list, raised, json_file>>

NextMain == ParseSection \/ Convert_events \/ OpenJson \/ DumpJson \/ WriteElm
SpecMain == InitMain /\ [][NextMain]_vars

\* C9: a run that ends in a fatal error has created and written no output
\* file.
C9_NoPartialOutput ==
    mpc = "failed" => json_file = "absent" /\ elm_file = "absent"

====
